---- MODULE Spec2Model ----
(***************************************************************************)
(* Model of the cproto client connection (package cproto, connection.go):  *)
(* the slot table, the available-sequences queue, rpcCall, the deadline    *)
(* ticker, the reader, the writer, onError and newConnection/login.        *)
(* Every atomic load/store, channel operation and locked section of the    *)
(* code is one step; a rendezvous on an unbuffered channel is one joint    *)
(* step of the sender and the receiver.                                    *)
(***************************************************************************)
EXTENDS Naturals, Integers, Sequences, FiniteSets, TLC

\* ---------------------------------------------------------------- constants
\* queueSize (40 in the code), scaled down
QueueSize == 2
\* the factor 10000000 of maxSeqNum, scaled down: each slot cycles through
\* SeqCycles sequence numbers
SeqCycles == 2
maxSeqNum == QueueSize * SeqCycles
deadlineCheckPeriodSec == 1
\* modulus of the uint32 counters and timeouts (2^32 in the code), scaled
\* down to 2^16: every value the model stores stays far below either
UInt32 == 65536

\* ---------------------------------------------------------------- bounds
\* concurrent callers of rpcCall besides login
NumCallers == 3
\* the ticker stops advancing c.now at MaxNow
MaxNow == 1
\* largest netTimeout a caller passes
MaxNetTimeout == 1
\* largest configured login timeout (seconds)
MaxLoginTimeout == 1
\* rpcCall invocations of the callers (login's own call not counted)
MaxCalls == 2

\* the environments explored.  In the sequential one the callers issue
\* their calls one after another, with or without deadlines and expired
\* contexts, and the owner may call Finalize.  In the pipelined one the
\* calls of the callers overlap, without deadlines, expired contexts or
\* Finalize, and one call more is issued, so that a call is submitted
\* while every slot is in use.  The peer's replies and the socket faults
\* are free in both.
Sequential ==
    [overlap |-> FALSE, netTimeouts |-> 0..MaxNetTimeout,
     loginTimeouts |-> 0..MaxLoginTimeout, canceled |-> BOOLEAN,
     finalize |-> TRUE, calls |-> MaxCalls]
Pipelined ==
    [overlap |-> TRUE, netTimeouts |-> {0}, loginTimeouts |-> {0},
     canceled |-> {FALSE}, finalize |-> FALSE, calls |-> MaxCalls + 1]
Environments == {Sequential, Pipelined}

LoginCaller == 0
Callers == 0..NumCallers
Slots == 0..(QueueSize - 1)
\* no reply buffer (buf == nil)
NoBuf == maxSeqNum + 1
NoErr == "nil"

VARIABLES
    seqs,       \* c.seqs: the buffered channel of available sequences
    requests,   \* c.requests: per slot seqNum and deadline
    now,        \* c.now
    err,        \* c.err
    errCh,      \* number of times errCh was closed (closed iff > 0)
    conn,       \* c.conn: "nil", "open" or "closed"
    connCloses, \* number of times c.conn.Close() ran
    termCh,     \* TRUE once Finalize closed termCh
    wrBuf,      \* c.wrBuf: frames (their sequences) appended, not yet swapped
    wrBuf2,     \* c.wrBuf2: frames detached for the socket write
    wrKick,     \* TRUE when the one-slot kick channel holds a value
    nc,         \* newConnection: position, login timeout, returned error
    tk,         \* deadlineTicker: position, scan index, loaded seqNum
    rd,         \* readLoop: position and the sequence of the matched frame
                \* (after a return: the out-of-range sequence that caused it)
    wl,         \* writeLoop: position
    rpc,        \* per caller: the rpcCall in progress and its result
    srv,        \* the requests the peer has received and not yet answered
    ncalls,     \* rpcCall invocations started by the callers
    env         \* the environment of this run, one of Environments

vars == <<seqs, requests, now, err, errCh, conn, connCloses, termCh,
          wrBuf, wrBuf2, wrKick, nc, tk, rd, wl, rpc, srv, ncalls, env>>

\* ---------------------------------------------------------------- helpers
seqNumIsValid(seqNum) == seqNum < maxSeqNum

\* nextSeqNum stepping to the adjacent sequence instead of by queueSize
nextSeqNum_Adjacent(seqNum) ==
    IF seqNum + 1 < maxSeqNum THEN seqNum + 1 ELSE seqNum + 1 - maxSeqNum

\* nextSeqNum without the wrap at maxSeqNum
nextSeqNum_NoWrap(seqNum) == seqNum + QueueSize

nextSeqNum(seqNum) ==
    IF seqNum + QueueSize < maxSeqNum THEN seqNum + QueueSize
    ELSE seqNum + QueueSize - maxSeqNum

ReqID(seq) == seq % QueueSize

\* the channel fill loop of newConnection: 0, 1, ..., queueSize-1
InitSeqs == [i \in 1..QueueSize |-> i - 1]

\* the zero value of requestInfo: seqNum 0, deadline 0
InitRequests == [i \in Slots |-> [seqNum |-> 0, deadline |-> 0]]

\* a caller outside rpcCall; in a call: the acquired seq, the netTimeout
\* argument, the loaded c.now, the rseq of the accepted bufPtr (buf), the
\* accepted timeoutSeq and err
NoSeq == maxSeqNum + 1
IdleCall == [pc |-> "idle", seq |-> 0, netTimeout |-> 0, nowRead |-> 0,
             buf |-> NoBuf, timeoutSeq |-> NoSeq, err |-> NoErr]

\* onError: under the lock, store the first error, close the socket and
\* the failure channel
OnErrorErr(e) == IF err = NoErr THEN e ELSE err
OnErrorConn == IF err = NoErr /\ conn = "open" THEN "closed" ELSE conn
OnErrorConnCloses ==
    IF err = NoErr /\ conn = "open" THEN connCloses + 1 ELSE connCloses
OnErrorErrCh == IF err = NoErr /\ errCh = 0 THEN errCh + 1 ELSE errCh

OnError(e) ==
    /\ err' = OnErrorErr(e)
    /\ conn' = OnErrorConn
    /\ connCloses' = OnErrorConnCloses
    /\ errCh' = OnErrorErrCh

NoError == UNCHANGED <<err, errCh, conn, connCloses>>

Init ==
    /\ seqs = InitSeqs
    /\ requests = InitRequests
    /\ now = 0
    /\ err = NoErr
    /\ errCh = 0
    /\ conn = "nil"
    /\ connCloses = 0
    /\ termCh = FALSE
    /\ wrBuf = <<>>
    /\ wrBuf2 = <<>>
    /\ wrKick = FALSE
    /\ nc = [pc |-> "connect", loginTimeout |-> 0, err |-> NoErr]
    /\ tk = [pc |-> "wait", i |-> 0, seqNum |-> 0]
    /\ rd = [pc |-> "off", rseq |-> 0]
    /\ wl = [pc |-> "off"]
    /\ rpc = [c \in Callers |-> IdleCall]
    /\ srv = {}
    /\ ncalls = 0
    /\ env \in Environments

\* ---------------------------------------------------------------- rpcCall
ConnVars == <<err, errCh, conn, connCloses>>
WriterVars == <<wrBuf, wrBuf2, wrKick, wl>>

\* The caller's record once rpcCall has returned (buf, err): login reads the
\* result; the result of any other caller leaves the connection with it
Returned(c, buf, e) ==
    IF c = LoginCaller
    THEN [IdleCall EXCEPT !.pc = "returned", !.buf = buf, !.err = e]
    ELSE IdleCall

\* rpcCall taking a sequence without waiting for the queue to hold one
RpcAcquire_NoBlock(c, netTimeout, canceled) ==
    /\ rpc[c].pc = "idle"
    /\ seqs' = IF seqs = <<>> THEN seqs ELSE Tail(seqs)
    /\ rpc' = [rpc EXCEPT ![c] =
          [IdleCall EXCEPT !.pc = "publish",
                           !.seq = IF seqs = <<>> THEN 0 ELSE Head(seqs)]]

\* seq := <-c.seqs; the ctx.Deadline() check; the load of c.now.
\* A caller whose context has expired is about to return Canceled.
RpcAcquire(c, netTimeout, canceled) ==
    /\ rpc[c].pc = "idle"
    /\ seqs /= <<>>
    /\ seqs' = Tail(seqs)
    /\ rpc' = [rpc EXCEPT ![c] =
          IF canceled
          THEN [IdleCall EXCEPT !.pc = "canceled", !.seq = Head(seqs),
                                !.netTimeout = netTimeout, !.err = "Canceled"]
          ELSE [IdleCall EXCEPT
                  !.pc = IF netTimeout /= 0 THEN "deadline" ELSE "publish",
                  !.seq = Head(seqs),
                  !.netTimeout = netTimeout,
                  !.nowRead = IF netTimeout /= 0 THEN now ELSE 0]]

CallerAcquire(c) ==
    /\ c /= LoginCaller
    /\ nc.pc = "done"
    /\ \A d \in 1..(c - 1) : rpc[d].pc /= "idle"
    /\ env.overlap \/ \A d \in Callers : rpc[d].pc = "idle"
    /\ ncalls < env.calls
    /\ ncalls' = ncalls + 1
    /\ \E netTimeout \in env.netTimeouts, canceled \in env.canceled :
          RpcAcquire(c, netTimeout, canceled)
    /\ UNCHANGED <<requests, now, ConnVars, termCh, WriterVars, nc, tk, rd, srv, env>>

\* return nil, bindings.NewError("Request was canceled", ...)
RpcReturnCanceled(c) ==
    /\ rpc[c].pc = "canceled"
    /\ rpc' = [rpc EXCEPT ![c] = Returned(c, NoBuf, rpc[c].err)]
    /\ UNCHANGED <<seqs, requests, now, ConnVars, termCh, WriterVars, nc, tk, rd, srv, ncalls, env>>

\* atomic.StoreUint32(&c.requests[reqID].deadline, now + netTimeout)
RpcStoreDeadline(c) ==
    /\ rpc[c].pc = "deadline"
    /\ requests' = [requests EXCEPT ![ReqID(rpc[c].seq)].deadline =
                        (rpc[c].nowRead + rpc[c].netTimeout) % UInt32]
    /\ rpc' = [rpc EXCEPT ![c].pc = "publish", ![c].nowRead = 0]
    /\ UNCHANGED <<seqs, now, ConnVars, termCh, WriterVars, nc, tk, rd, srv, ncalls, env>>

\* atomic.StoreUint32(&c.requests[reqID].seqNum, seq)
RpcPublish(c) ==
    /\ rpc[c].pc = "publish"
    /\ requests' = [requests EXCEPT ![ReqID(rpc[c].seq)].seqNum = rpc[c].seq]
    /\ rpc' = [rpc EXCEPT ![c].pc = "write"]
    /\ UNCHANGED <<seqs, now, ConnVars, termCh, WriterVars, nc, tk, rd, srv, ncalls, env>>

\* writeLoop is not running (never started, or returned): nothing reads
\* wrBuf or wrKick any more, and the model stops recording them
WriterGone == wl.pc \in {"off", "done"}

\* c.write: append the frame to wrBuf under the lock
RpcWrite(c) ==
    /\ rpc[c].pc = "write"
    /\ wrBuf' = IF WriterGone THEN wrBuf ELSE Append(wrBuf, rpc[c].seq)
    /\ rpc' = [rpc EXCEPT ![c].pc = "kick"]
    /\ UNCHANGED <<seqs, requests, now, ConnVars, termCh, wrBuf2, wrKick, wl,
                   nc, tk, rd, srv, ncalls, env>>

\* c.write returning after the append, without the send on wrKick
RpcKick_NoSend(c) ==
    /\ rpc[c].pc = "kick"
    /\ rpc' = [rpc EXCEPT ![c].pc = "select"]
    /\ UNCHANGED <<seqs, requests, now, ConnVars, termCh, wrBuf, wrBuf2, wrKick,
                   wl, nc, tk, rd, srv, ncalls, env>>

\* c.write: the non-blocking send on wrKick
RpcKick(c) ==
    /\ rpc[c].pc = "kick"
    /\ wrKick' = IF WriterGone THEN wrKick ELSE TRUE
    /\ rpc' = [rpc EXCEPT ![c].pc = "select"]
    /\ UNCHANGED <<seqs, requests, now, ConnVars, termCh, wrBuf, wrBuf2, wl,
                   nc, tk, rd, srv, ncalls, env>>

\* the reply case without its sequence test
ReplyAccepted_Any(rseq, seq) == TRUE
\* if bufPtr.rseq == seq
ReplyAccepted(rseq, seq) == rseq = seq
\* if timeoutSeq == seq
TimeoutAccepted(timeoutSeq, seq) == timeoutSeq = seq
\* the select loop without its break
PcAfterSelect_NoBreak(accepted) == "select"
\* break for_loop leaves the select loop, otherwise the caller selects again
PcAfterSelect(accepted) == IF accepted THEN "reset" ELSE "select"

\* case bufPtr := <-reply, the rendezvous with the reader's repCh <- bufPtr
RpcRecvReply(c) ==
    /\ rpc[c].pc = "select"
    /\ rd.pc = "send"
    /\ ReqID(rd.rseq) = ReqID(rpc[c].seq)
    /\ rd' = [pc |-> "read", rseq |-> 0]
    /\ rpc' = [rpc EXCEPT
          ![c].buf = IF ReplyAccepted(rd.rseq, rpc[c].seq) THEN rd.rseq ELSE @,
          ![c].pc = PcAfterSelect(ReplyAccepted(rd.rseq, rpc[c].seq))]
    /\ UNCHANGED <<seqs, requests, now, ConnVars, termCh, WriterVars, nc, tk, srv, ncalls, env>>

\* case <-c.errCh: err = c.err under the read lock
RpcRecvErr(c) ==
    /\ rpc[c].pc = "select"
    /\ errCh > 0
    /\ rpc' = [rpc EXCEPT ![c].err = err, ![c].pc = PcAfterSelect(TRUE)]
    /\ UNCHANGED <<seqs, requests, now, ConnVars, termCh, WriterVars, nc, tk, rd, srv, ncalls, env>>

\* the ticker's position after the slot it is at
TickerAdvance ==
    IF tk.i + 1 < QueueSize
    THEN [pc |-> "loadSeq", i |-> tk.i + 1, seqNum |-> 0]
    ELSE [pc |-> "wait", i |-> 0, seqNum |-> 0]

\* case timeoutSeq := <-timeoutCh, the rendezvous with the ticker's
\* timeoutCh <- seqNum
RpcRecvTimeout(c) ==
    /\ rpc[c].pc = "select"
    /\ tk.pc = "send"
    /\ tk.i = ReqID(rpc[c].seq)
    /\ tk' = TickerAdvance
    /\ rpc' = [rpc EXCEPT
          ![c].timeoutSeq = IF TimeoutAccepted(tk.seqNum, rpc[c].seq)
                            THEN tk.seqNum ELSE @,
          ![c].err = IF TimeoutAccepted(tk.seqNum, rpc[c].seq) THEN "Timeout" ELSE @,
          ![c].pc = PcAfterSelect(TimeoutAccepted(tk.seqNum, rpc[c].seq))]
    /\ UNCHANGED <<seqs, requests, now, ConnVars, termCh, WriterVars, nc, rd, srv, ncalls, env>>

\* atomic.StoreUint32(&c.requests[reqID].seqNum, maxSeqNum)
RpcReset(c) ==
    /\ rpc[c].pc = "reset"
    /\ requests' = [requests EXCEPT ![ReqID(rpc[c].seq)].seqNum = maxSeqNum]
    /\ rpc' = [rpc EXCEPT ![c].pc = "release"]
    /\ UNCHANGED <<seqs, now, ConnVars, termCh, WriterVars, nc, tk, rd, srv, ncalls, env>>

\* c.seqs <- nextSeqNum(seq), then the return: with a reply, buf.parseArgs()
\* yields nil or the error status the server put in the reply
RpcRelease(c) ==
    /\ rpc[c].pc = "release"
    /\ Len(seqs) < QueueSize
    /\ seqs' = Append(seqs, nextSeqNum(rpc[c].seq))
    /\ \E parsed \in {NoErr, "ServerError"} :
          rpc' = [rpc EXCEPT ![c] =
                    Returned(c, rpc[c].buf,
                             IF rpc[c].err = NoErr THEN parsed ELSE rpc[c].err)]
    /\ UNCHANGED <<requests, now, ConnVars, termCh, WriterVars, nc, tk, rd, srv, ncalls, env>>

\* ---------------------------------------------------------------- deadlineTicker
\* one tick of ticker.C: return when errCh or termCh is closed, otherwise
\* atomic.AddUint32(&c.now, deadlineCheckPeriodSec) and start the scan
TickerTick ==
    /\ tk.pc = "wait"
    /\ IF errCh > 0 \/ termCh
       THEN /\ tk' = [tk EXCEPT !.pc = "done"]
            /\ now' = now
       ELSE /\ now < MaxNow
            /\ now' = (now + deadlineCheckPeriodSec) % UInt32
            /\ tk' = [pc |-> "loadSeq", i |-> 0, seqNum |-> 0]
    /\ UNCHANGED <<seqs, requests, ConnVars, termCh, WriterVars, nc, rd, rpc, srv, ncalls, env>>

\* seqNum := atomic.LoadUint32(&c.requests[i].seqNum); skip an invalid one
TickerLoadSeq ==
    /\ tk.pc = "loadSeq"
    /\ tk' = IF seqNumIsValid(requests[tk.i].seqNum)
             THEN [tk EXCEPT !.pc = "loadDeadline", !.seqNum = requests[tk.i].seqNum]
             ELSE TickerAdvance
    /\ UNCHANGED <<seqs, requests, now, ConnVars, termCh, WriterVars, nc, rd, rpc, srv, ncalls, env>>

\* if deadline != 0 && now >= deadline
DeadlineReached(deadline, n) == deadline /= 0 /\ n >= deadline

\* deadline := atomic.LoadUint32(&c.requests[i].deadline) and the test
TickerLoadDeadline ==
    /\ tk.pc = "loadDeadline"
    /\ tk' = IF DeadlineReached(requests[tk.i].deadline, now)
             THEN [tk EXCEPT !.pc = "zero"]
             ELSE TickerAdvance
    /\ UNCHANGED <<seqs, requests, now, ConnVars, termCh, WriterVars, nc, rd, rpc, srv, ncalls, env>>

\* atomic.StoreUint32(&c.requests[i].deadline, 0); the send on timeoutCh
\* that follows is the rendezvous RpcRecvTimeout
TickerZero ==
    /\ tk.pc = "zero"
    /\ requests' = [requests EXCEPT ![tk.i].deadline = 0]
    /\ tk' = [tk EXCEPT !.pc = "send"]
    /\ UNCHANGED <<seqs, now, ConnVars, termCh, WriterVars, nc, rd, rpc, srv, ncalls, env>>

\* ---------------------------------------------------------------- readLoop
\* 0xEEDD1132 as its two 16-bit halves
cprotoMagic == <<61149, 4402>>
cprotoVersion == 258
cprotoMinCompatVersion == 257

\* the frames the peer may put on the wire: a reply to a request it has
\* received, or a frame with a bad magic, an old version or a sequence
\* out of range
Magics == {cprotoMagic, <<0, 0>>}
Versions == {cprotoMinCompatVersion - 1, cprotoMinCompatVersion, cprotoVersion}
Rseqs == srv \cup {maxSeqNum}

\* the checks of readReply on a header: the error returned, if any
HeaderError(magic, version, rseq) ==
    IF magic /= cprotoMagic THEN "ProtocolError"
    ELSE IF version < cprotoMinCompatVersion THEN "ProtocolError"
    ELSE IF ~seqNumIsValid(rseq) THEN "ProtocolError"
    ELSE NoErr

\* the reader delivering every frame with a valid header
SlotMatches_Always(rseq) == TRUE
\* if atomic.LoadUint32(&c.requests[reqID].seqNum) != rseq: drain and drop
SlotMatches(rseq) == requests[ReqID(rseq)].seqNum = rseq

\* the sequence readLoop returned on: rseq when the header passed the
\* magic and version checks and failed seqNumIsValid, 0 otherwise
RejectedSeq(magic, version, rseq) ==
    IF magic = cprotoMagic /\ version >= cprotoMinCompatVersion
           /\ ~seqNumIsValid(rseq)
    THEN rseq ELSE 0

\* readReply up to the send: a header that fails a check makes readLoop
\* call onError and return; a frame for no current occupant is drained;
\* otherwise the payload is read and the reader goes to repCh <- bufPtr
ReaderReadFrame(magic, version, rseq) ==
    /\ rd.pc = "read"
    /\ IF HeaderError(magic, version, rseq) /= NoErr
       THEN /\ OnError(HeaderError(magic, version, rseq))
            /\ rd' = [pc |-> "done", rseq |-> RejectedSeq(magic, version, rseq)]
            /\ srv' = srv
       ELSE /\ NoError
            /\ rd' = IF SlotMatches(rseq)
                     THEN [pc |-> "send", rseq |-> rseq]
                     ELSE rd
            /\ srv' = srv \ {rseq}
    /\ UNCHANGED <<seqs, requests, now, termCh, WriterVars, nc, tk, rpc, ncalls, env>>

\* io.ReadFull fails (peer closed, socket closed, short read)
ReaderIOError ==
    /\ rd.pc = "read"
    /\ OnError("ReadError")
    /\ rd' = [pc |-> "done", rseq |-> 0]
    /\ UNCHANGED <<seqs, requests, now, termCh, WriterVars, nc, tk, rpc, srv, ncalls, env>>

Reader ==
    \/ \E magic \in Magics, version \in Versions, rseq \in Rseqs :
          ReaderReadFrame(magic, version, rseq)
    \/ ReaderIOError

\* ---------------------------------------------------------------- writeLoop
\* select { case <-c.errCh: return; case <-c.wrKick: }
WriterWait ==
    /\ wl.pc = "wait"
    /\ \/ /\ errCh > 0
          /\ wl' = [pc |-> "done"]
          /\ wrKick' = wrKick
       \/ /\ wrKick
          /\ wrKick' = FALSE
          /\ wl' = [pc |-> "swap"]
    /\ UNCHANGED <<seqs, requests, now, ConnVars, termCh, wrBuf, wrBuf2,
                   nc, tk, rd, rpc, srv, ncalls, env>>

\* the locked section: an empty wrBuf sends the writer back to the select
\* (or out, when c.err is set); otherwise the buffers are swapped
WriterSwap ==
    /\ wl.pc = "swap"
    /\ IF wrBuf = <<>>
       THEN /\ wl' = [pc |-> IF err = NoErr THEN "wait" ELSE "done"]
            /\ UNCHANGED <<wrBuf, wrBuf2>>
       ELSE /\ wrBuf' = wrBuf2
            /\ wrBuf2' = wrBuf
            /\ wl' = [pc |-> "flush"]
    /\ UNCHANGED <<seqs, requests, now, ConnVars, termCh, wrKick,
                   nc, tk, rd, rpc, srv, ncalls, env>>

\* the frames at positions 1..k of a buffer, as a set
Frames(buf, k) == {buf[i] : i \in 1..k}

\* c.wrBuf2.WriteTo(c.conn): the whole detached buffer goes to the socket,
\* or the write fails after some of its frames and the writer calls
\* onError and returns
WriterFlush ==
    /\ wl.pc = "flush"
    /\ \/ /\ conn = "open"
          /\ srv' = srv \cup Frames(wrBuf2, Len(wrBuf2))
          /\ wrBuf2' = <<>>
          /\ wl' = [pc |-> "wait"]
          /\ NoError
       \/ /\ \E k \in 0..(Len(wrBuf2) - 1) :
                /\ k = 0 \/ conn = "open"
                /\ srv' = srv \cup Frames(wrBuf2, k)
                /\ wrBuf2' = SubSeq(wrBuf2, k + 1, Len(wrBuf2))
          /\ OnError("WriteError")
          /\ wl' = [pc |-> "done"]
    /\ UNCHANGED <<seqs, requests, now, termCh, wrBuf, wrKick,
                   nc, tk, rd, rpc, ncalls, env>>

\* ---------------------------------------------------------------- newConnection
\* c.connect(loginTimeout): the dial succeeds and starts writeLoop and
\* readLoop, or fails and newConnection calls onError and returns
NcConnect ==
    /\ nc.pc = "connect"
    /\ \E loginTimeout \in env.loginTimeouts :
         \/ /\ conn' = "open"
            /\ UNCHANGED <<err, errCh, connCloses>>
            /\ rd' = [pc |-> "read", rseq |-> 0]
            /\ wl' = [pc |-> "wait"]
            /\ nc' = [pc |-> "checkTimeout", loginTimeout |-> loginTimeout,
                      err |-> NoErr]
         \/ /\ OnError("DialError")
            /\ UNCHANGED <<rd, wl>>
            /\ nc' = [pc |-> "done", loginTimeout |-> 0, err |-> "DialError"]
    /\ UNCHANGED <<seqs, requests, now, termCh, wrBuf, wrBuf2, wrKick, tk, rpc, srv, ncalls, env>>

\* if loginTimeout != 0 { if loginTimeout > atomic.LoadUint32(&c.now) ...
NcCheckTimeout ==
    /\ nc.pc = "checkTimeout"
    /\ IF nc.loginTimeout = 0
       THEN /\ nc' = [nc EXCEPT !.pc = "login"]
            /\ NoError
       ELSE IF nc.loginTimeout > now
       THEN /\ nc' = [nc EXCEPT !.pc = "subTimeout"]
            /\ NoError
       ELSE /\ OnError("ConnectTimeout")
            /\ nc' = [pc |-> "done", loginTimeout |-> 0, err |-> "ConnectTimeout"]
    /\ UNCHANGED <<seqs, requests, now, termCh, WriterVars, tk, rd, rpc, srv, ncalls, env>>

\* loginTimeout = loginTimeout - atomic.LoadUint32(&c.now), a second load
NcSubTimeout ==
    /\ nc.pc = "subTimeout"
    /\ nc' = [nc EXCEPT !.pc = "login",
                        !.loginTimeout = (@ + UInt32 - now) % UInt32]
    /\ UNCHANGED <<seqs, requests, now, ConnVars, termCh, WriterVars, tk, rd, rpc, srv, ncalls, env>>

\* login: c.rpcCall(context.TODO(), cmdLogin, timeout, ...)
LoginAcquire ==
    /\ nc.pc = "login"
    /\ rpc[LoginCaller].pc = "idle"
    /\ RpcAcquire(LoginCaller, nc.loginTimeout, FALSE)
    /\ UNCHANGED <<requests, now, ConnVars, termCh, WriterVars, nc, tk, rd, srv, ncalls, env>>

\* the error login stores in c.err
LoginErr(e) == IF e = "Timeout" THEN "LoginTimeout" ELSE e

\* the values c.err may hold after login's assignment, which is made
\* without the lock: the assigned value, or, when it races with an onError
\* that has tested c.err == nil and not yet stored, that onError's value
LoginStoredErr(e) ==
    IF err = NoErr THEN {LoginErr(e)} ELSE {LoginErr(e), err}

\* login after rpcCall returned: on an error c.err = ... and return err;
\* otherwise newConnection returns the connection
NcLoginReturn ==
    /\ nc.pc = "login"
    /\ rpc[LoginCaller].pc = "returned"
    /\ IF rpc[LoginCaller].err /= NoErr
       THEN /\ err' \in LoginStoredErr(rpc[LoginCaller].err)
            /\ nc' = [nc EXCEPT !.pc = "loginFailed", !.err = rpc[LoginCaller].err]
       ELSE /\ err' = err
            /\ nc' = [pc |-> "done", loginTimeout |-> 0, err |-> NoErr]
    /\ rpc' = [rpc EXCEPT ![LoginCaller] = IdleCall]
    /\ UNCHANGED <<seqs, requests, now, errCh, conn, connCloses, termCh,
                   WriterVars, tk, rd, srv, ncalls, env>>

\* if err = c.login(...); err != nil { c.onError(err); return }
NcLoginFailed ==
    /\ nc.pc = "loginFailed"
    /\ OnError(nc.err)
    /\ nc' = [nc EXCEPT !.pc = "done", !.loginTimeout = 0]
    /\ UNCHANGED <<seqs, requests, now, termCh, WriterVars, tk, rd, rpc, srv, ncalls, env>>

\* Finalize: close(c.termCh)
Finalize ==
    /\ env.finalize
    /\ nc.pc = "done"
    /\ ~termCh
    /\ termCh' = TRUE
    /\ UNCHANGED <<seqs, requests, now, ConnVars, WriterVars, nc, tk, rd, rpc, srv, ncalls, env>>

\* ---------------------------------------------------------------- specification
RpcStep(c) ==
    \/ RpcReturnCanceled(c)
    \/ RpcStoreDeadline(c)
    \/ RpcPublish(c)
    \/ RpcWrite(c)
    \/ RpcKick(c)
    \/ RpcRecvReply(c)
    \/ RpcRecvErr(c)
    \/ RpcRecvTimeout(c)
    \/ RpcReset(c)
    \/ RpcRelease(c)

Ticker == TickerTick \/ TickerLoadSeq \/ TickerLoadDeadline \/ TickerZero

Writer == WriterWait \/ WriterSwap \/ WriterFlush

NewConnection ==
    NcConnect \/ NcCheckTimeout \/ NcSubTimeout \/ LoginAcquire
        \/ NcLoginReturn \/ NcLoginFailed

Next ==
    \/ NewConnection
    \/ \E c \in Callers : CallerAcquire(c)
    \/ \E c \in Callers : RpcStep(c)
    \/ Ticker
    \/ Reader
    \/ Writer
    \/ Finalize

Spec == Init /\ [][Next]_vars

\* ---------------------------------------------------------------- claims
\* a caller that has taken a sequence from c.seqs and not yet pushed its
\* successor back nor returned
InFlight == {"canceled", "deadline", "publish", "write", "kick", "select",
             "reset", "release"}
Holds(c) == rpc[c].pc \in InFlight
\* a caller whose select loop has ended
Resolved(c) == rpc[c].pc \in {"reset", "release", "returned"}
\* the slot indices of the queued sequences
QueuedSlots == {ReqID(seqs[i]) : i \in 1..Len(seqs)}

\* C1: at most one in-flight request owns a slot: the sequences held by
\* callers and the sequences in the available queue have pairwise
\* different slot indices.
C1_OneRequestPerSlot ==
    /\ \A c, d \in Callers :
          c /= d /\ Holds(c) /\ Holds(d) => ReqID(rpc[c].seq) /= ReqID(rpc[d].seq)
    /\ \A c \in Callers : Holds(c) => ReqID(rpc[c].seq) \notin QueuedSlots
    /\ \A i, j \in 1..Len(seqs) : i /= j => ReqID(seqs[i]) /= ReqID(seqs[j])

\* two callers wait in their select at once, the queue being empty
C1_Witness ==
    \E c, d \in Callers :
        c /= d /\ rpc[c].pc = "select" /\ rpc[d].pc = "select" /\ seqs = <<>>

\* C2: correlation is by sequence: a call that has left its select holds a
\* reply only if the message taken carried its own sequence, and a Timeout
\* only if the value taken from the timeout channel was its own sequence;
\* a call still in its select has accepted neither.
C2_CorrelationBySequence ==
    \A c \in Callers :
        /\ rpc[c].pc \in {"reset", "release"} =>
              /\ rpc[c].buf /= NoBuf => rpc[c].buf = rpc[c].seq
              /\ rpc[c].err = "Timeout" => rpc[c].timeoutSeq = rpc[c].seq
        /\ rpc[c].pc = "select" =>
              rpc[c].buf = NoBuf /\ rpc[c].timeoutSeq = NoSeq

\* two calls are in flight and the one that acquired the later sequence of
\* the two holds its own reply while the other still waits
C2_Witness ==
    \E c, d \in Callers :
        /\ c /= d
        /\ rpc[c].pc = "select"
        /\ rpc[d].pc = "reset"
        /\ rpc[d].buf = rpc[d].seq
        /\ rpc[c].seq < rpc[d].seq

\* the outcomes a call has observed.  An error other than Timeout and
\* Canceled is the stored c.err taken in the errCh case, except after the
\* return with a reply, where it is the status parseArgs found in the reply
IsFailure(c) ==
    /\ rpc[c].err \notin {NoErr, "Timeout", "Canceled"}
    /\ ~(rpc[c].pc = "returned" /\ rpc[c].buf /= NoBuf)
Outcomes(c) ==
    {o \in {"reply", "timeout", "failure", "canceled"} :
        \/ o = "reply" /\ rpc[c].buf /= NoBuf
        \/ o = "timeout" /\ rpc[c].err = "Timeout"
        \/ o = "failure" /\ IsFailure(c)
        \/ o = "canceled" /\ rpc[c].err = "Canceled"}

C4_WaitersObserveStoredError ==
    [][\A c \in Callers :
          errCh > 0 /\ rpc[c].pc = "select" /\ rpc'[c].pc /= "select"
              => rpc'[c].err = err /\ err /= NoErr]_vars

\* C5: once the failure channel is closed, no send of the reader on a
\* reply channel completes.
C5_NoReplyAfterFailure ==
    [][errCh > 0 => ~(rd.pc = "send" /\ rd'.pc /= "send")]_vars

\* C6: the transition to Failed is one-shot: a stored error is never
\* replaced or cleared, and the failure channel and the socket are closed
\* at most once.
C6_OneShotFailure ==
    [][/\ err /= NoErr => err' = err
       /\ errCh' <= 1
       /\ connCloses' <= 1]_vars

\* C7: after newConnection has returned a login error, the error is
\* stored, the failure channel is closed and the socket is closed.
C7_LoginFailureFails ==
    nc.pc = "done" /\ nc.err \notin {NoErr, "DialError", "ConnectTimeout"}
        => err /= NoErr /\ errCh > 0 /\ conn = "closed"

\* C8: the queued sequences and the sequences held by calls in progress
\* are always pipeline_depth many: every call that returns, Canceled and
\* Timeout included, has pushed the successor of its sequence.
C8_SlotsReclaimed ==
    Len(seqs) + Cardinality({c \in Callers : Holds(c)}) = QueueSize

\* C9: a call that stored a deadline and waits in its select can still be
\* timed out: the deadline is still in its slot, or the ticker is about
\* to send this call's sequence on the slot's timeout channel.
C9_DeadlineStaysArmed ==
    \A c \in Callers :
        rpc[c].pc = "select" /\ rpc[c].netTimeout /= 0 =>
            \/ requests[ReqID(rpc[c].seq)].deadline /= 0
            \/ /\ tk.pc = "send"
               /\ tk.i = ReqID(rpc[c].seq)
               /\ tk.seqNum = rpc[c].seq

\* C10: a call submitted with netTimeout = 0 never resolves with Timeout.
C10_NoDeadlineNoTimeout ==
    \A c \in Callers :
        rpc[c].pc \in {"reset", "release"} /\ rpc[c].netTimeout = 0
            => rpc[c].err /= "Timeout"

\* a request that has published its sequence and not yet left its select
Awaited(rseq) ==
    \E c \in Callers :
        rpc[c].seq = rseq /\ rpc[c].pc \in {"write", "kick", "select"}

\* C11: a late reply leaves the reader consuming frames: on a connection
\* that has not failed, the reader is never left sending a reply whose
\* request has already resolved.
C11_ReaderKeepsReading ==
    errCh = 0 /\ rd.pc = "send" => Awaited(rd.rseq)

\* C12: at connection birth the queue holds 0, 1, ..., pipeline_depth-1,
\* and a call that releases sequence s pushes (s + pipeline_depth) mod MAX,
\* which lies in [0, MAX), has the slot index of s and differs from s.
C12_NextSequence ==
    /\ [](nc.pc = "connect" => seqs = [i \in 1..QueueSize |-> i - 1])
    /\ [][\A c \in Callers :
            rpc[c].pc = "release" /\ rpc'[c].pc /= "release" =>
                LET s == rpc[c].seq
                    n == seqs'[Len(seqs')]
                IN  /\ seqs' = Append(seqs, n)
                    /\ n = (s + QueueSize) % maxSeqNum
                    /\ n \in 0..(maxSeqNum - 1)
                    /\ n % QueueSize = s % QueueSize
                    /\ n /= s]_vars

\* a sequence that wrapped around MAX is back in the queue
C12_Witness ==
    /\ nc.pc = "done"
    /\ \E i \in 1..Len(seqs) : seqs[i] = 0

\* a step in which a caller enters rpcCall takes the head of the queue
\* and appends nothing to the write buffer
StartsByAcquire ==
    \A c \in Callers :
        (rpc[c].pc = "idle" /\ rpc'[c].pc /= "idle") =>
            (seqs /= <<>> /\ seqs' = Tail(seqs) /\ rpc'[c].seq = Head(seqs)
                /\ wrBuf' = wrBuf)
\* a step that appends to the write buffer appends the frame of a call
\* that holds its sequence
AppendsHeld ==
    (Len(wrBuf') > Len(wrBuf)) =>
        (\E c \in Callers : Holds(c) /\ wrBuf' = Append(wrBuf, rpc[c].seq))

\* C13: at most pipeline_depth requests hold a sequence; a call starts
\* only by taking the head of a non-empty queue, writing nothing in that
\* step, so a call submitted while the queue is empty waits for a release;
\* and every frame appended to the write buffer belongs to a call that
\* holds its sequence.
C13_AdmissionControl ==
    /\ [](Cardinality({c \in Callers : Holds(c)}) <= QueueSize)
    /\ [][StartsByAcquire /\ AppendsHeld]_vars

\* every slot is held by a call waiting for its reply, and a further call
\* is to be made by a caller that is outside rpcCall
C13_Witness ==
    /\ seqs = <<>>
    /\ Cardinality({c \in Callers : rpc[c].pc = "select"}) = QueueSize
    /\ ncalls < env.calls
    /\ \E c \in Callers : c /= LoginCaller /\ rpc[c].pc = "idle"

\* C14: a reply whose header sequence is not in [0, MAX) fails the
\* connection: once the reader has returned on such a frame, the error is
\* stored and the failure channel is closed.
C14_InvalidSeqFails ==
    rd.pc = "done" /\ ~seqNumIsValid(rd.rseq) => err /= NoErr /\ errCh > 0

\* C15: a slot's sequence field holds a valid sequence only while a
\* request that published it owns the slot; in every other state,
\* the one after construction included, it holds the sentinel MAX.
C15_IdleSlotsHoldSentinel ==
    \A i \in Slots :
        seqNumIsValid(requests[i].seqNum) =>
            \E c \in Callers :
                /\ rpc[c].pc \in {"write", "kick", "select", "reset"}
                /\ rpc[c].seq = requests[i].seqNum

\* a step of the reader that consumes a frame and stays reading
DrainStep ==
    rd.pc = "read" /\ rd' = rd /\ srv' /= srv /\ srv' \subseteq srv

\* C16: a frame with a valid sequence that is not the slot's current one
\* is dropped: the step changes no slot, no caller, no part of the failure
\* state, and the reader stays reading; and every message the reader goes
\* on to send carries the sequence its slot held when the header was
\* examined.
C16_DrainAndDrop ==
    [][/\ DrainStep =>
             (/\ \A s \in srv \ srv' : requests[ReqID(s)].seqNum /= s
              /\ UNCHANGED <<requests, seqs, rpc, tk, ConnVars, WriterVars>>)
       /\ (rd.pc /= "send" /\ rd'.pc = "send") =>
             (requests[ReqID(rd'.rseq)].seqNum = rd'.rseq)]_vars

\* a request timed out and reset its slot; its frame was flushed and the
\* reply to it has since been consumed by the reader, which reads on
C16_Witness ==
    \E c \in Callers :
        /\ rpc[c].pc = "release"
        /\ rpc[c].err = "Timeout"
        /\ rpc[c].seq \notin srv
        /\ wrBuf = <<>> /\ wrBuf2 = <<>>
        /\ wl.pc = "wait"
        /\ rd.pc = "read"
        /\ errCh = 0 /\ err = NoErr

\* a request that has stored a deadline in its slot and has not resolved
DeadlineOwner(c) ==
    /\ rpc[c].netTimeout /= 0
    /\ rpc[c].pc \in {"publish", "write", "kick", "select"}

\* C17: when the ticker zeroes the deadline of a slot in which a request
\* has stored one, it does so to fire that request: the sequence it is
\* about to send is that request's.
C17_ZeroingOwnDeadline ==
    [][\A c \in Callers :
          (/\ tk.pc = "zero" /\ tk'.pc = "send"
           /\ DeadlineOwner(c)
           /\ tk.i = ReqID(rpc[c].seq))
              => tk.seqNum = rpc[c].seq]_vars

\* C18: after the failure channel or the termination channel is closed
\* the ticker sends no further timeout signal.
C18_NoSignalAfterStop ==
    [][(errCh > 0 \/ termCh) => ~(tk.pc = "send" /\ tk'.pc /= "send")]_vars

\* a swap detaches the whole active buffer and leaves it empty
SwapDetachesAll ==
    (wl.pc = "swap" /\ wl'.pc = "flush") =>
        (wrBuf2' = wrBuf /\ wrBuf' = <<>>)
\* a flush that succeeds hands every detached frame to the socket
FlushWritesAll ==
    (wl.pc = "flush" /\ wl'.pc = "wait") =>
        (/\ srv' = srv \cup {wrBuf2[i] : i \in 1..Len(wrBuf2)}
         /\ wrBuf2' = <<>>
         /\ wrBuf' = wrBuf)

C20_LoginDeadlineIsRemainder ==
    [][(nc.pc = "subTimeout" /\ nc'.pc = "login") =>
           nc'.loginTimeout \in 1..nc.loginTimeout]_vars

====
